---- MODULE Spec2Model ----
(***************************************************************************)
(* Model of the dr.spark listing watcher (src/source.py): the polling      *)
(* cycle run_once, the Seen Store (sqlite table seen), the Discord         *)
(* notifier discord_send with its attempt loop, and the page extractor.    *)
(*                                                                         *)
(* Durations are counted in quarters of a second (0.25 s), so that         *)
(* retry_after + 0.25 and 1.5 * attempt are integers: 1 s = 4, 1.5 s = 6.  *)
(* Strings that the code inspects character by character (href, price     *)
(* text) are sequences of one-character strings.                           *)
(*                                                                         *)
(* The sqlite store is taken to be reliable: connect, SELECT, INSERT and   *)
(* commit do not raise. What the network does (the fetch, each POST) and   *)
(* what the clock reads are inputs chosen freely at each step.             *)
(***************************************************************************)
EXTENDS Integers, Sequences, FiniteSets, TLC

\* ----------------------------------------------------------------- bounds
MaxCycles == 2      \* polling cycles the scheduler starts
MaxCards  == 2      \* listing cards on one fetched page
MaxTime   == 1      \* largest value int(time.time()) returns

\* An optional value: None is Python's None, Some(v) a value that is present.
None == <<>>
Some(v) == <<v>>

\* ------------------------------------------------------ program constants
max_attempts_m == 3 + 1
max_attempts == 3

BASE == <<"B">>                       \* "https://www.drspark.net"
IN_PROGRESS == "InProgress"           \* the status tag "구매중"
S_GRADE == "SGrade"                   \* the status tag "S급"

Digits == {"0", "1", "2", "3", "4", "5", "6", "7", "8", "9"}

Min(S) == CHOOSE x \in S : \A y \in S : x <= y

\* x in lst, for a Python list
In(x, lst) == \E i \in 1..Len(lst) : lst[i] = x

\* ---------------------------------------------------------- the extractor
\* POST_ID_RE = r"/(\d{5,})$" used with .search: the digit run that follows a
\* "/" and reaches the end of the string, when it has five digits or more
\* (Some(m.group(1))), or None when nothing matches.
POST_ID_RE_m(href) ==
    LET starts == { i \in 1..Len(href) :
                      /\ href[i] = "/"
                      /\ Len(href) - i >= 4
                      /\ \A j \in (i + 1)..Len(href) : href[j] \in Digits }
    IN  IF starts = {} THEN None
        ELSE Some(SubSeq(href, Min(starts) + 1, Len(href)))
POST_ID_RE(href) ==
    LET starts == { i \in 1..Len(href) :
                      /\ href[i] = "/"
                      /\ Len(href) - i >= 5
                      /\ \A j \in (i + 1)..Len(href) : href[j] \in Digits }
    IN  IF starts = {} THEN None
        ELSE Some(SubSeq(href, Min(starts) + 1, Len(href)))

DigitVal(c) ==
    CASE c = "0" -> 0 [] c = "1" -> 1 [] c = "2" -> 2 [] c = "3" -> 3
      [] c = "4" -> 4 [] c = "5" -> 5 [] c = "6" -> 6 [] c = "7" -> 7
      [] c = "8" -> 8 [] c = "9" -> 9

\* re.sub(r"[^\d]", "", price)
RECURSIVE OnlyDigits(_)
OnlyDigits(s) ==
    IF s = <<>> THEN <<>>
    ELSE IF Head(s) \in Digits THEN <<Head(s)>> \o OnlyDigits(Tail(s))
         ELSE OnlyDigits(Tail(s))

\* int(digits)
RECURSIVE ToInt(_)
ToInt(s) ==
    IF s = <<>> THEN 0
    ELSE 10 * ToInt(SubSeq(s, 1, Len(s) - 1)) + DigitVal(s[Len(s)])

\* raw_price of a card whose price text is p (None when there is no price
\* element): int(digits) if digits else None
RawPrice(p) ==
    IF p = None THEN None
    ELSE LET digits == OnlyDigits(p[1])
         IN  IF digits = <<>> THEN None ELSE Some(ToInt(digits))

\* The item dict parse_list appends for one card with a matching href.
ItemOf(card) ==
    [ id        |-> POST_ID_RE(card.href)[1],
      url       |-> BASE \o card.href,
      title     |-> card.title,
      raw_price |-> RawPrice(card.price),
      price     |-> card.price,
      status    |-> card.status,
      date      |-> None ]

\* parse_list: the items of the cards whose href matches, in document order.
RECURSIVE parse_list_m(_)
parse_list_m(html) ==
    IF html = <<>> THEN <<>>
    ELSE IF POST_ID_RE(Head(html).href) = None
         THEN parse_list_m(Tail(html))
         ELSE parse_list_m(Tail(html)) \o <<ItemOf(Head(html))>>
RECURSIVE parse_list(_)
parse_list(html) ==
    IF html = <<>> THEN <<>>
    ELSE IF POST_ID_RE(Head(html).href) = None
         THEN parse_list(Tail(html))
         ELSE <<ItemOf(Head(html))>> \o parse_list(Tail(html))

\* ------------------------------------------------------------ the inputs
H10001 == <<"/", "1", "0", "0", "0", "1">>
H10002 == <<"/", "s", "/", "1", "0", "0", "0", "2">>
H1234  == <<"/", "1", "2", "3", "4">>
P1000  == <<"1", ",", "0", "0", "0", "W">>
PNoDigits == <<"W">>

\* The listing cards a fetched page is made of: two ids, one of them shown
\* with two titles and prices and with the in-progress tag.
Cards ==
    { [href |-> H10001, title |-> "A", price |-> Some(P1000),     status |-> <<>>],
      [href |-> H10001, title |-> "B", price |-> None,            status |-> <<S_GRADE>>],
      [href |-> H10001, title |-> "A", price |-> Some(P1000),     status |-> <<S_GRADE, IN_PROGRESS>>],
      [href |-> H10002, title |-> "C", price |-> Some(PNoDigits), status |-> <<>>] }

\* The values the clock int(time.time()) can return.
Times == 0..MaxTime

Pages == UNION { [1..n -> Cards] : n \in 0..MaxCards }

Ids == { POST_ID_RE(c.href)[1] : c \in { k \in Cards : POST_ID_RE(k.href) # None } }

\* ---------------------------------------------------------- the Seen Store
\* The table seen is a set of rows; post_id is its primary key.

\* SELECT 1 FROM seen WHERE post_id=? ... fetchone() is not None
Known_m(store, id) == FALSE
Known(store, id) == \E e \in store : e.post_id = id

\* INSERT INTO seen(post_id, first_seen_ts, product_name, price) VALUES(?,?,?,?)
InsertRow_m(store, row) == store
InsertRow(store, row) == store \cup {row}

\* is_new(item) at clock value t: the returned flag, the table and the item
\* (the code sets item['date'] in place) after the call.
is_new_m(store, item, t) ==
    [ ret   |-> TRUE,
      store |-> InsertRow(store, [ post_id       |-> item.id,
                                   first_seen_ts |-> t,
                                   product_name  |-> item.title,
                                   price         |-> item.raw_price ]),
      item  |-> [item EXCEPT !.date = Some(t)] ]
is_new_redate(store, item, t) ==
    [ ret   |-> ~Known(store, item.id),
      store |-> IF Known(store, item.id) THEN store
                ELSE InsertRow(store, [ post_id       |-> item.id,
                                        first_seen_ts |-> t,
                                        product_name  |-> item.title,
                                        price         |-> item.raw_price ]),
      item  |-> [item EXCEPT !.date = Some(t)] ]
is_new_upsert(store, item, t) ==
    [ ret   |-> ~Known(store, item.id),
      store |-> InsertRow({ e \in store : e.post_id # item.id },
                          [ post_id       |-> item.id,
                            first_seen_ts |-> t,
                            product_name  |-> item.title,
                            price         |-> item.raw_price ]),
      item  |-> IF Known(store, item.id) THEN item
                ELSE [item EXCEPT !.date = Some(t)] ]
is_new(store, item, t) ==
    LET known == Known(store, item.id)
        dated == [item EXCEPT !.date = Some(t)]
    IN  IF ~known
        THEN [ ret   |-> TRUE,
               store |-> InsertRow(store, [ post_id       |-> item.id,
                                            first_seen_ts |-> dated.date[1],
                                            product_name  |-> item.title,
                                            price         |-> item.raw_price ]),
               item  |-> dated ]
        ELSE [ ret |-> FALSE, store |-> store, item |-> item ]

SeenIds(store) == { e.post_id : e \in store }

\* ------------------------------------------------------------ the notifier
\* What one requests.post can end in: a network-level failure
\* (requests.exceptions.RequestException) or a response with a status code
\* and, for 429, a body.
NoBody == [json |-> "invalid", retry_after |-> None]
NetErr == [kind |-> "neterr", status |-> 0, body |-> NoBody]
Http(st, b) == [kind |-> "http", status |-> st, body |-> b]

\* Bodies of a 429: not JSON, a JSON object without retry_after, an object
\* whose retry_after is a number (in quarters of a second: 2 s, -1 s) or a
\* string that is no number.
Bodies429 ==
    { NoBody,
      [json |-> "object", retry_after |-> None],
      [json |-> "object", retry_after |-> Some([t |-> "num", v |-> 8])],
      [json |-> "object", retry_after |-> Some([t |-> "num", v |-> 0 - 4])],
      [json |-> "object", retry_after |-> Some([t |-> "str", v |-> 0])] }

OtherStatuses == {100, 304, 404, 500}

Responses ==
    {NetErr} \cup { Http(st, NoBody) : st \in {200, 204} \cup OtherStatuses }
             \cup { Http(429, b) : b \in Bodies429 }

\* if not DISCORD_WEBHOOK: os.getenv gives None when the variable is unset,
\* and the empty string is falsy too.
Webhooks == { None, Some(""), Some("url") }
Disabled_m(wh) == wh = None
Disabled(wh) == wh = None \/ wh[1] = ""

\* r.status_code == 204 or (200 <= r.status_code < 300)
IsSuccess(st) == st = 204 \/ (200 <= st /\ st < 300)

\* r.raise_for_status() raises requests.HTTPError for 4xx and 5xx only.
RaiseForStatus(st) == 400 <= st /\ st < 600

\* float(data.get("retry_after", 1.0)) with data = r.json(), or {} when the
\* body is not JSON: Some(seconds * 4), or None when the expression raises
\* (ValueError on a non-numeric string).
RetryAfter(body) ==
    IF body.json = "invalid" THEN Some(4)
    ELSE IF body.retry_after = None THEN Some(4)
    ELSE IF body.retry_after[1].t = "num" THEN Some(body.retry_after[1].v)
    ELSE None

\* time.sleep(retry_after + 0.25)
RateLimitSleep_m(w) == w
RateLimitSleep(w) == w + 1

\* time.sleep(1.5 * attempt)
NetBackoff_m(attempt) == 6
NetBackoff(attempt) == 6 * attempt

\* The except branch of attempt a: sleep and go on while attempts remain,
\* re-raise on the last one.
OnRequestException(a) ==
    IF a < max_attempts
    THEN [ctl |-> "continue", slept |-> Some(NetBackoff(a)), exc |-> ""]
    ELSE [ctl |-> "raise", slept |-> None, exc |-> "RequestException"]

\* One pass of the body of "for attempt in range(1, max_attempts + 1)" whose
\* POST ended in r: how the pass leaves the loop body ("return", "continue" to
\* the next value of attempt, "raise" out of discord_send with the class of
\* the exception) and the sleep it made, if any. time.sleep raises ValueError for a negative duration.
Iteration(a, r) ==
    IF r.kind = "neterr" THEN OnRequestException(a)
    ELSE IF IsSuccess(r.status) THEN [ctl |-> "return", slept |-> None, exc |-> ""]
    ELSE IF r.status = 429
    THEN LET ra == RetryAfter(r.body)
         IN  IF ra = None THEN [ctl |-> "raise", slept |-> None, exc |-> "ValueError"]
             ELSE IF RateLimitSleep(ra[1]) < 0
             THEN [ctl |-> "raise", slept |-> None, exc |-> "ValueError"]
             ELSE [ctl |-> "continue", slept |-> Some(RateLimitSleep(ra[1])), exc |-> ""]
    ELSE IF RaiseForStatus(r.status) THEN OnRequestException(a)
    ELSE [ctl |-> "continue", slept |-> None, exc |-> ""]

\* payload = {"content": None, "embeds": [embed]} built from the item.
Payload(item) ==
    [ title  |-> item.title,
      url    |-> item.url,
      price  |-> item.price,
      status |-> item.status,
      date   |-> item.date ]

\* "구매중" in it["status"]
IsFiltered_m(it) == Len(it.status) > 0 /\ it.status[1] = IN_PROGRESS
IsFiltered(it) == In(IN_PROGRESS, it.status)

\* --------------------------------------------------------------- run_once
\* except Exception as e: the exceptions raised in the model (RequestException
\* and its subclasses, ValueError, TypeError, sqlite3.Error) all derive from
\* Exception.
ExceptionClasses == {"RequestException", "ValueError", "TypeError", "sqlite3.Error"}
Catches_m(exc) == exc = "RequestException"
Catches(exc) == exc \in ExceptionClasses

\* The try of run_once encloses the whole for loop: a caught exception
\* abandons the loop at item i and run_once returns.
AfterException_m(i) == [pc |-> "loop", idx |-> i + 1]
AfterException(i) == [pc |-> "idle", idx |-> i]

\* Where run_once is once exc was raised while it was at item i, and how the
\* cycle ended: with the status given when the except clause caught exc,
\* "escaped" when exc left run_once.
Raised(exc, i, status) ==
    IF Catches(exc)
    THEN [pc |-> AfterException(i).pc, idx |-> AfterException(i).idx, status |-> status]
    ELSE [pc |-> "idle", idx |-> i, status |-> "escaped"]

\* ----------------------------------------------------------- the fetcher
\* Durations of the fetcher are counted in tenths of a second: 0.7 s = 7.

\* Retry(total=3, ...): the number of retries the session allows after the
\* first request.
total_m == 3 - 1
total == 3

\* backoff_factor=0.7
backoff_factor == 7

\* status_forcelist=[429, 500, 502, 503, 504]
status_forcelist == {429, 500, 502, 503, 504}

\* What one GET of the session can end in: a response (for 503 with or
\* without a Retry-After header, here of 1 s) or a connection-level failure.
\* The body of a fetched page is chosen where it is parsed.
FetchResults ==
    { [kind |-> "http",   status |-> 200, retry_after |-> None],
      [kind |-> "http",   status |-> 404, retry_after |-> None],
      [kind |-> "http",   status |-> 503, retry_after |-> None],
      [kind |-> "http",   status |-> 503, retry_after |-> Some(2)],
      [kind |-> "neterr", status |-> 0,   retry_after |-> None] }

\* The request is one the Retry object retries: a connection-level failure or
\* a status of the forcelist (the method is GET, which is allowed).
Retryable(r) == r.kind = "neterr" \/ r.status \in status_forcelist

RECURSIVE Pow2(_)
Pow2(n) == IF n = 0 THEN 1 ELSE 2 * Pow2(n - 1)

\* Retry.get_backoff_time after n consecutive failed requests: nothing after
\* the first, then backoff_factor * 2 ** (n - 1).
Backoff(n) == IF n <= 1 THEN 0 ELSE backoff_factor * Pow2(n - 1)

\* Retry.sleep before the retry that follows the n-th failed request r: the
\* response's Retry-After when it has one, the backoff time otherwise.
RetrySleep(r, n) ==
    IF r.kind = "http" /\ r.retry_after # None
    THEN 10 * r.retry_after[1]
    ELSE Backoff(n)

\* fetch_html on what ses.get ends in: TRUE when it returns r.text, FALSE when
\* it raises (a RequestException from ses.get, or raise_for_status() on a
\* status >= 400; raise_on_status=False hands the last response of an
\* exhausted retry back).
fetch_html_m(r) == r.kind # "neterr"
fetch_html(r) ==
    IF r.kind = "neterr" THEN FALSE
    ELSE IF r.status >= 400 THEN FALSE
    ELSE TRUE

\* ------------------------------------------------------------- the state
VARIABLES
    webhook,      \* DISCORD_WEBHOOK, read once from the environment
    seen,         \* the rows of the table seen
    cycle,        \* number of run_once calls the scheduler has started
    pc,           \* where the running cycle is: idle, fetch, parse, loop, notify, post
    items,        \* parse_list(html) of the running cycle
    idx,          \* position of "for it in ..." (1-based)
    attempt,      \* discord_send: the loop variable attempt
    posts,        \* discord_send: requests.post calls made by the current call
    lastResp,     \* discord_send: what the last requests.post ended in
    slept,        \* discord_send: the time.sleep made by the last pass, if any
    result,       \* discord_send: none, running, returned, raised
    payload,      \* discord_send: the payload built for the current call
    sent,         \* discord_send: the payloads posted by the current call
    notifyCount,  \* history: discord_send calls per item id
    failedIds,    \* history: ids whose discord_send call raised
    seen0,        \* history: the table when the running cycle started
    cycNotify,    \* history: discord_send calls of the running cycle
    cycStatus,    \* history: running, done, fetch_failed, store_failed,
                  \* failed (discord_send raised), escaped
    page,         \* history: the cards of the page the running cycle fetched
    cycOrder,     \* history: the ids discord_send was called for, in call order
    gets,         \* fetch_html: GET requests the session made for this fetch
    fhist,        \* fetch_html: what each of them ended in (the last only,
                  \* once the page was fetched)
    fsleeps,      \* fetch_html: the sleeps between them
    inst,         \* scheduler: the run_once instance of each pool thread
    dropped,      \* scheduler: runs skipped because an instance was running
    absent,       \* scheduler: <<run, id>> for each SELECT that found no row
    listing,      \* extractor: the cards of the page handed to parse_list
    parsed        \* extractor: what parse_list returned for it

callVars == <<attempt, posts, lastResp, slept, result, payload, sent>>
histVars == <<notifyCount, failedIds, seen0, cycNotify, cycStatus, page, cycOrder>>
fetchVars == <<gets, fhist, fsleeps>>
schedVars == <<inst, dropped, absent>>
parseVars == <<listing, parsed>>
vars == <<webhook, seen, cycle, pc, items, idx, callVars, histVars, fetchVars,
          schedVars, parseVars>>

NoPayload == [title |-> "", url |-> <<>>, price |-> None, status |-> <<>>, date |-> None]

\* No call of discord_send is in progress or just ended: its locals are gone
\* once run_once goes on.
NoCall ==
    /\ attempt' = 0
    /\ posts' = 0
    /\ lastResp' = None
    /\ slept' = None
    /\ result' = "none"
    /\ payload' = NoPayload
    /\ sent' = {}

\* The threads of the scheduler's pool that can run the job, and a thread
\* that runs nothing.
Slots == 1..2
Free == [pc |-> "free", run |-> 0, todo |-> <<>>]

Init ==
    /\ webhook \in Webhooks
    /\ seen = {}
    /\ cycle = 0
    /\ pc = "idle"
    /\ items = <<>>
    /\ idx = 0
    /\ attempt = 0
    /\ posts = 0
    /\ lastResp = None
    /\ slept = None
    /\ result = "none"
    /\ payload = NoPayload
    /\ sent = {}
    /\ notifyCount = [i \in Ids |-> 0]
    /\ failedIds = {}
    /\ seen0 = {}
    /\ cycNotify = 0
    /\ cycStatus = "none"
    /\ page = <<>>
    /\ cycOrder = <<>>
    /\ gets = 0
    /\ fhist = <<>>
    /\ fsleeps = <<>>
    /\ inst = [s \in Slots |-> Free]
    /\ dropped = 0
    /\ absent = {}
    /\ listing = <<>>
    /\ parsed = None

\* The scheduler's interval job starts run_once (max_instances=1: only when
\* no run is in progress).
Trigger ==
    /\ pc = "idle"
    /\ cycle < MaxCycles
    /\ cycle' = cycle + 1
    /\ pc' = "fetch"
    /\ items' = <<>>
    /\ idx' = 0
    /\ seen0' = seen
    /\ cycNotify' = 0
    /\ cycStatus' = "running"
    /\ NoCall
    /\ UNCHANGED <<webhook, seen, notifyCount, failedIds>>
    /\ gets' = 0 /\ fhist' = <<>> /\ fsleeps' = <<>>
    /\ page' = <<>>
    /\ cycOrder' = <<>>
    /\ UNCHANGED <<schedVars, parseVars>>

\* html = fetch_html(): one GET of the session ends in r. A retryable r is
\* slept on and retried while retries remain; otherwise r is what ses.get
\* ends in. A failed fetch is caught by run_once's except and ends the cycle;
\* after a successful one the record of the fetch is dropped.
Fetch(r) ==
    /\ pc = "fetch"
    /\ IF Retryable(r) /\ gets < total
       THEN /\ gets' = gets + 1
            /\ fhist' = Append(fhist, r)
            /\ fsleeps' = Append(fsleeps, RetrySleep(r, gets + 1))
            /\ UNCHANGED <<pc, idx, cycStatus>>
       ELSE IF ~fetch_html(r)
       THEN /\ gets' = gets + 1
            /\ fhist' = Append(fhist, r)
            /\ pc' = Raised("RequestException", idx, "fetch_failed").pc
            /\ idx' = Raised("RequestException", idx, "fetch_failed").idx
            /\ cycStatus' = Raised("RequestException", idx, "fetch_failed").status
            /\ UNCHANGED fsleeps
       ELSE /\ gets' = 0
            /\ fhist' = <<r>>
            /\ fsleeps' = <<>>
            /\ pc' = "parse"
            /\ UNCHANGED <<idx, cycStatus>>
    /\ UNCHANGED <<webhook, seen, cycle, items, callVars,
                   notifyCount, failedIds, seen0, cycNotify>>
    /\ UNCHANGED <<page, cycOrder>>
    /\ UNCHANGED <<schedVars, parseVars>>

\* for it in parse_list(html): the fetched page is html.
Parse(html) ==
    /\ pc = "parse"
    /\ items' = parse_list(html)
    /\ idx' = 1
    /\ pc' = "loop"
    /\ UNCHANGED <<webhook, seen, cycle, callVars, notifyCount, failedIds,
                   seen0, cycNotify, cycStatus, cycOrder, fetchVars>>
    /\ page' = html
    /\ UNCHANGED <<schedVars, parseVars>>

\* if "구매중" in it["status"]: continue
Filtered ==
    /\ pc = "loop"
    /\ idx <= Len(items)
    /\ IsFiltered(items[idx])
    /\ idx' = idx + 1
    /\ NoCall
    /\ UNCHANGED <<webhook, seen, cycle, pc, items, histVars>>
    /\ UNCHANGED fetchVars
    /\ UNCHANGED <<schedVars, parseVars>>

\* if is_new(it): ... else: (seen); int(time.time()) reads t. The call of
\* discord_send is the next step.
IsNewStep(t) ==
    /\ pc = "loop"
    /\ idx <= Len(items)
    /\ ~IsFiltered(items[idx])
    /\ LET r == is_new(seen, items[idx], t)
       IN  /\ seen' = r.store
           /\ items' = [items EXCEPT ![idx] = r.item]
           /\ IF r.ret
              THEN pc' = "notify" /\ idx' = idx
              ELSE pc' = "loop" /\ idx' = idx + 1
    /\ NoCall
    /\ UNCHANGED <<webhook, cycle, histVars>>
    /\ UNCHANGED fetchVars
    /\ UNCHANGED <<schedVars, parseVars>>

\* is_new(it) raises sqlite3.Error (database locked, disk I/O error): in
\* connect or the SELECT, or in the INSERT or commit of a row for an unknown
\* id, after item['date'] was set. con.close() is not reached and nothing is
\* committed, so the table is as it was.
StoreFails(t, at) ==
    /\ pc = "loop"
    /\ idx <= Len(items)
    /\ ~IsFiltered(items[idx])
    /\ \/ at = "select" /\ items' = items
       \/ /\ at = "insert"
          /\ ~Known(seen, items[idx].id)
          /\ items' = [items EXCEPT ![idx].date = Some(t)]
    /\ pc' = Raised("sqlite3.Error", idx, "store_failed").pc
    /\ idx' = Raised("sqlite3.Error", idx, "store_failed").idx
    /\ cycStatus' = Raised("sqlite3.Error", idx, "store_failed").status
    /\ NoCall
    /\ UNCHANGED <<webhook, seen, cycle, notifyCount, failedIds, seen0, cycNotify>>
    /\ UNCHANGED fetchVars
    /\ UNCHANGED <<page, cycOrder>>
    /\ UNCHANGED <<schedVars, parseVars>>

\* discord_send(it) is entered: without a webhook it returns at once,
\* otherwise it builds the payload and enters the attempt loop.
\* datetime.fromtimestamp(item.get("date")) raises TypeError on None.
DiscordSendEnter ==
    /\ pc = "notify"
    /\ notifyCount' = [notifyCount EXCEPT ![items[idx].id] = @ + 1]
    /\ cycNotify' = cycNotify + 1
    /\ posts' = 0
    /\ lastResp' = None
    /\ slept' = None
    /\ sent' = {}
    /\ IF Disabled(webhook)
       THEN /\ result' = "returned"
            /\ attempt' = 0
            /\ payload' = NoPayload
            /\ pc' = "loop"
            /\ idx' = idx + 1
            /\ UNCHANGED <<failedIds, cycStatus>>
       ELSE IF items[idx].date = None
       THEN /\ result' = "raised"
            /\ attempt' = 0
            /\ payload' = NoPayload
            /\ pc' = Raised("TypeError", idx, "failed").pc
            /\ idx' = Raised("TypeError", idx, "failed").idx
            /\ cycStatus' = Raised("TypeError", idx, "failed").status
            /\ failedIds' = failedIds \cup {items[idx].id}
       ELSE /\ result' = "running"
            /\ attempt' = 1
            /\ payload' = Payload(items[idx])
            /\ pc' = "post"
            /\ UNCHANGED <<idx, failedIds, cycStatus>>
    /\ UNCHANGED <<webhook, seen, cycle, items, seen0>>
    /\ UNCHANGED fetchVars
    /\ cycOrder' = Append(cycOrder, items[idx].id)
    /\ UNCHANGED page
    /\ UNCHANGED <<schedVars, parseVars>>

\* One pass of the attempt loop: requests.post(DISCORD_WEBHOOK, json=payload)
\* ends in r. After the last value of attempt the for loop ends and
\* discord_send returns; an exception leaves discord_send and is caught by
\* run_once's except, which ends the cycle.
Post(r) ==
    /\ pc = "post"
    /\ attempt <= max_attempts
    /\ posts' = posts + 1
    /\ sent' = sent \cup {payload}
    /\ lastResp' = Some(r)
    /\ LET it == Iteration(attempt, r)
       IN  /\ slept' = it.slept
           /\ CASE it.ctl = "return" ->
                    /\ result' = "returned"
                    /\ pc' = "loop"
                    /\ idx' = idx + 1
                    /\ UNCHANGED <<attempt, failedIds, cycStatus>>
                [] it.ctl = "continue" /\ attempt < max_attempts ->
                    /\ attempt' = attempt + 1
                    /\ UNCHANGED <<result, pc, idx, failedIds, cycStatus>>
                [] it.ctl = "continue" /\ attempt >= max_attempts ->
                    /\ result' = "returned"
                    /\ pc' = "loop"
                    /\ idx' = idx + 1
                    /\ UNCHANGED <<attempt, failedIds, cycStatus>>
                [] it.ctl = "raise" ->
                    /\ result' = "raised"
                    /\ pc' = Raised(it.exc, idx, "failed").pc
                    /\ idx' = Raised(it.exc, idx, "failed").idx
                    /\ cycStatus' = Raised(it.exc, idx, "failed").status
                    /\ failedIds' = failedIds \cup {items[idx].id}
                    /\ UNCHANGED attempt
    /\ UNCHANGED <<webhook, seen, cycle, items, payload,
                   notifyCount, seen0, cycNotify>>
    /\ UNCHANGED fetchVars
    /\ UNCHANGED <<page, cycOrder>>
    /\ UNCHANGED <<schedVars, parseVars>>

\* the for loop over the items is exhausted: run_once returns
EndCycle ==
    /\ pc = "loop"
    /\ idx > Len(items)
    /\ pc' = "idle"
    /\ cycStatus' = "done"
    /\ NoCall
    /\ UNCHANGED <<webhook, seen, cycle, items, idx,
                   notifyCount, failedIds, seen0, cycNotify>>
    /\ UNCHANGED fetchVars
    /\ UNCHANGED <<page, cycOrder>>
    /\ UNCHANGED <<schedVars, parseVars>>

Next ==
    \/ Trigger
    \/ \E r \in FetchResults : Fetch(r)
    \/ \E html \in Pages : Parse(html)
    \/ Filtered
    \/ \E t \in Times : IsNewStep(t)
    \/ \E t \in Times, at \in {"select", "insert"} : StoreFails(t, at)
    \/ DiscordSendEnter
    \/ \E r \in Responses : Post(r)
    \/ EndCycle

Spec == Init /\ [][Next]_vars

\* ---------------------------------------------------------- the scheduler
\* add_job(run_once, "interval", ..., max_instances=1): the number of
\* instances of the job that may run at the same time.
max_instances_m == 1 + 1
max_instances == 1

Busy == { s \in Slots : inst[s].pc # "free" }

\* The pages the instances of this specification work on: up to MaxCards
\* cards that pass the filter.
SchedCards == { k \in Cards : ~In(IN_PROGRESS, k.status) }
SchedPages == UNION { [1..n -> SchedCards] : n \in 1..MaxCards }

\* The interval fires and the executor accepts the run: fewer than
\* max_instances instances are running, so run_once starts on a free thread
\* (the fetch and parse_list have produced the items of page p).
SchedStart(p) ==
    /\ cycle < MaxCycles
    /\ Cardinality(Busy) < max_instances
    /\ Busy # Slots
    /\ LET s == Min(Slots \ Busy)
       IN  inst' = [inst EXCEPT ![s] = [pc |-> "select", run |-> cycle + 1,
                                        todo |-> parse_list(p)]]
    /\ cycle' = cycle + 1
    /\ UNCHANGED <<dropped, absent>>
    /\ UNCHANGED <<webhook, seen, pc, items, idx, callVars, histVars, fetchVars,
                   parseVars>>

\* The interval fires while max_instances instances are running: the executor
\* raises MaxInstancesReachedError, the scheduler logs the run as skipped and
\* nothing is started or kept for later.
SchedDrop ==
    /\ dropped < MaxCycles
    /\ Cardinality(Busy) >= max_instances
    /\ dropped' = dropped + 1
    /\ UNCHANGED <<inst, absent>>
    /\ UNCHANGED <<webhook, seen, cycle, pc, items, idx, callVars, histVars,
                   fetchVars, parseVars>>

\* is_new of the instance on thread s: SELECT 1 FROM seen WHERE post_id=?
\* for its next item; a known item is done with.
WorkerSelect(s) ==
    /\ inst[s].pc = "select"
    /\ inst[s].todo # <<>>
    /\ LET it == Head(inst[s].todo)
       IN  IF Known(seen, it.id)
           THEN /\ inst' = [inst EXCEPT ![s].todo = Tail(@)]
                /\ UNCHANGED absent
           ELSE /\ inst' = [inst EXCEPT ![s].pc = "insert"]
                /\ absent' = absent \cup {<<inst[s].run, it.id>>}
    /\ UNCHANGED <<dropped, webhook, seen, cycle, pc, items, idx, callVars,
                   histVars, fetchVars, parseVars>>

\* is_new of the instance on thread s: the INSERT and commit at clock value t
\* for the item its SELECT found no row for. post_id is the primary key: the
\* INSERT of an id that got a row in between raises IntegrityError, which
\* ends the instance.
WorkerInsert(s, t) ==
    /\ inst[s].pc = "insert"
    /\ LET it == Head(inst[s].todo)
       IN  IF Known(seen, it.id)
           THEN /\ inst' = [inst EXCEPT ![s] = Free]
                /\ UNCHANGED seen
           ELSE /\ seen' = InsertRow(seen, [ post_id       |-> it.id,
                                            first_seen_ts |-> t,
                                            product_name  |-> it.title,
                                            price         |-> it.raw_price ])
                /\ inst' = [inst EXCEPT ![s].pc = "select", ![s].todo = Tail(@)]
    /\ UNCHANGED <<dropped, absent, webhook, cycle, pc, items, idx, callVars,
                   histVars, fetchVars, parseVars>>

\* The for loop of the instance on thread s is over and run_once returns.
WorkerDone(s) ==
    /\ inst[s].pc = "select"
    /\ inst[s].todo = <<>>
    /\ inst' = [inst EXCEPT ![s] = Free]
    /\ UNCHANGED <<dropped, absent, webhook, seen, cycle, pc, items, idx,
                   callVars, histVars, fetchVars, parseVars>>

SchedNext ==
    \/ \E p \in SchedPages : SchedStart(p)
    \/ SchedDrop
    \/ \E s \in Slots : WorkerSelect(s)
    \/ \E s \in Slots, t \in Times : WorkerInsert(s, t)
    \/ \E s \in Slots : WorkerDone(s)

SpecSched == Init /\ [][SchedNext]_vars

\* ---------------------------------------------------------- the extractor
\* href values of cards: the id after a directory, four digits only, six
\* digits, a query after the id, a letter before the digits, no "/" at all,
\* a "/" after the id, and no href.
HQuery  == <<"/", "s", "/", "1", "2", "3", "4", "5", "?", "p">>
H123456 == <<"/", "1", "2", "3", "4", "5", "6">>
HLetter == <<"/", "a", "1", "2", "3", "4", "5">>
HNoSlash == <<"1", "2", "3", "4", "5">>
HTrailing == <<"/", "1", "2", "3", "4", "5", "/">>
Hrefs == {H10002, H1234, H123456, HQuery, HLetter, HNoSlash, HTrailing, <<>>}

HrefPages ==
    UNION { [1..n -> { [href |-> h, title |-> "A", price |-> None, status |-> <<>>]
                          : h \in Hrefs }] : n \in 0..MaxCards }

\* A page p is handed to parse_list.
Load(p) ==
    /\ listing' = p
    /\ parsed' = None
    /\ UNCHANGED <<webhook, seen, cycle, pc, items, idx, callVars, histVars,
                   fetchVars, schedVars>>

\* parse_list(listing) returns.
ParseList ==
    /\ parsed = None
    /\ parsed' = Some(parse_list(listing))
    /\ UNCHANGED <<listing, webhook, seen, cycle, pc, items, idx, callVars,
                   histVars, fetchVars, schedVars>>

ParseNext ==
    \/ \E p \in HrefPages : Load(p)
    \/ ParseList

SpecParse == Init /\ [][ParseNext]_vars

\* ================================================================ claims
\* The ids of the items of the running cycle that the in-progress filter
\* lets through.
Unfiltered == { i \in 1..Len(items) : ~In(IN_PROGRESS, items[i].status) }

RowsOf(store, p) == { e \in store : e.post_id = p }

\* The items parse_list can produce from the cards.
CardItems == { ItemOf(c) : c \in { k \in Cards : POST_ID_RE(k.href) # None } }

\* C1: over any sequence of polling cycles discord_send is invoked at most
\* once per item id: a call is only ever made for an id that was not in the
\* Seen Store when the cycle started, and an id whose delivery raised stays in
\* the store (the insert is not rolled back).
C1_NotifiedAtMostOnce ==
    /\ \A i \in Ids : notifyCount[i] <= 1
    /\ pc \in {"notify", "post"} => items[idx].id \notin SeenIds(seen0)
    /\ failedIds \subseteq SeenIds(seen)

\* An id whose delivery raised in an earlier cycle was met again by the
\* running cycle, found in the store and passed over without a call.
C1_Witness ==
    /\ pc = "loop"
    /\ result = "none"
    /\ idx > 1
    /\ (idx - 1) \in Unfiltered
    /\ items[idx - 1].id \in failedIds
    /\ notifyCount[items[idx - 1].id] = 1

\* C2: for every item and every store the program reaches, when the item's id
\* is absent two consecutive is_new calls return true then false, and the
\* store then holds exactly one row for the id.
C2_DedupTwice ==
    \A it \in CardItems : \A t1, t2 \in Times :
        RowsOf(seen, it.id) = {} =>
            LET first  == is_new(seen, it, t1)
                second == is_new(first.store, first.item, t2)
            IN  /\ first.ret = TRUE
                /\ second.ret = FALSE
                /\ Cardinality(RowsOf(second.store, it.id)) = 1
                /\ second.store = first.store

\* One cycle called is_new twice for an id that was absent when it started (the
\* id is on the page twice): the second call found it and one row exists.
C2_Witness ==
    /\ pc = "loop"
    /\ result = "none"
    /\ idx = 3
    /\ Unfiltered = {1, 2}
    /\ items[1].id = items[2].id
    /\ items[1].id \notin SeenIds(seen0)
    /\ notifyCount[items[1].id] = 1
    /\ Cardinality(RowsOf(seen, items[1].id)) = 1

\* C3: processing an item whose status tags include the in-progress marker
\* leaves the Seen Store and the notified ids unchanged and goes on to the
\* next item; no item handed to discord_send carries the marker.
C3_FilteredUntouched ==
    [][ /\ (pc = "loop" /\ idx <= Len(items) /\ In(IN_PROGRESS, items[idx].status))
            => /\ seen' = seen
               /\ notifyCount' = notifyCount
               /\ pc' = "loop"
               /\ idx' = idx + 1
        /\ pc' \in {"notify", "post"} => ~In(IN_PROGRESS, items'[idx'].status)
      ]_vars

\* The loop has just passed over an in-progress item whose id is new: the id
\* is in no row and no call was made for it.
C3_Witness ==
    /\ pc = "loop"
    /\ idx > 1
    /\ idx - 1 <= Len(items)
    /\ In(IN_PROGRESS, items[idx - 1].status)
    /\ items[idx - 1].id \notin SeenIds(seen)
    /\ notifyCount[items[idx - 1].id] = 0

\* C4: when a cycle ends with a successful fetch and no notification raised,
\* the discord_send calls of the cycle, the rows it added and the distinct
\* unfiltered ids of the page that were not in the store before are equally
\* many.
C4_CycleCounts ==
    cycStatus = "done" =>
        LET expected == { items[i].id : i \in Unfiltered } \ SeenIds(seen0)
        IN  /\ cycNotify = Cardinality(expected)
            /\ Cardinality(seen \ seen0) = Cardinality(expected)
            /\ seen0 \subseteq seen

\* A finished cycle whose page held one already-seen and one new item: one
\* call, one new row.
C4_Witness ==
    /\ cycStatus = "done"
    /\ Len(items) = 2
    /\ Unfiltered = {1, 2}
    /\ \E i, j \in 1..2 : /\ items[i].id \in SeenIds(seen0)
                          /\ items[j].id \notin SeenIds(seen0)
    /\ cycNotify = 1
    /\ Cardinality(seen \ seen0) = 1

\* The pass of the attempt loop made by this step: a POST was sent.
PostStep == pc = "post" /\ posts' = posts + 1

Is2xx(resp) == resp.kind = "http" /\ 200 <= resp.status /\ resp.status <= 299

\* C5: with an endpoint configured, a discord_send call that has used up its
\* attempts without a 2xx response ends by raising, also when the last attempt
\* is answered 429 (the answers that are neither 2xx nor 429 are C8's): it
\* never returns normally without a successful delivery.
C5_RaisesWhenExhausted ==
    ( /\ webhook \notin {None, Some("")}
      /\ posts = 3
      /\ result # "running"
      /\ lastResp # None
      /\ lastResp[1].status = 429 )
        => result = "raised"

\* The wait a 429 body gives, as the claim reads it: 1.0 s when the body is
\* not JSON or has no retry_after, the number when retry_after is one.
UsableWait(b) ==
    \/ b.json = "invalid"
    \/ b.retry_after = None
    \/ (b.retry_after[1].t = "num" /\ b.retry_after[1].v + 1 >= 0)
WaitOf(b) ==
    IF b.json = "invalid" \/ b.retry_after = None THEN 4 ELSE b.retry_after[1].v

C7_AtMostThreePosts ==
    /\ posts <= 3
    /\ (lastResp # None /\ Is2xx(lastResp[1]))
          => (result = "returned" /\ pc # "post")

\* The third POST of a call received 204 and the call returned.
C7_Witness ==
    /\ posts = 3
    /\ lastResp # None
    /\ lastResp[1].status = 204
    /\ result = "returned"
    /\ pc = "loop"

\* C8: when the final attempt receives a status that is neither 2xx nor 429
\* (1xx, 3xx, 4xx, 5xx), the call ends with an exception.
C8_OtherStatusRaises ==
    ( /\ posts = 3
      /\ lastResp # None
      /\ lastResp[1].kind = "http"
      /\ ~Is2xx(lastResp[1])
      /\ lastResp[1].status # 429 )
        => result = "raised"

\* C9: a pass number n that ends in a network-level failure sleeps 1.5 * n
\* seconds and goes on to attempt n + 1 when n < 3; when n = 3 the failure
\* leaves discord_send with no sleep and no further attempt.
C9_NetworkFailureBackoff ==
    [][ (PostStep /\ lastResp'[1].kind = "neterr") =>
          /\ attempt < 3 => /\ slept' = Some(6 * attempt)
                             /\ attempt' = attempt + 1
                             /\ pc' = "post"
                             /\ result' = "running"
                             /\ payload' = payload
          /\ attempt = 3 => /\ slept' = None
                             /\ result' = "raised"
                             /\ pc' = "idle"
                             /\ cycStatus' = "failed"
      ]_vars

\* Attempt 2 ended in a network failure: the call slept 3.0 s and is about to
\* make attempt 3.
C9_Witness ==
    /\ pc = "post"
    /\ attempt = 3
    /\ posts = 2
    /\ lastResp = Some(NetErr)
    /\ slept = Some(12)

\* C10: with no webhook configured no POST is ever made and no discord_send
\* call raises, while a cycle whose fetch succeeded still records every
\* unfiltered item of its page in the Seen Store and calls discord_send once
\* for each row it adds.
C10_DisabledWebhook ==
    webhook \in {None, Some("")} =>
        /\ posts = 0
        /\ sent = {}
        /\ pc # "post"
        /\ result \in {"none", "returned"}
        /\ cycStatus \notin {"failed", "escaped"}
        /\ cycStatus = "done" =>
              /\ \A i \in Unfiltered : items[i].id \in SeenIds(seen)
              /\ cycNotify = Cardinality(seen \ seen0)

\* Without a webhook a cycle finished after recording a new item for which
\* discord_send was called and nothing was posted.
C10_Witness ==
    /\ webhook \in {None, Some("")}
    /\ cycStatus = "done"
    /\ cycNotify >= 1
    /\ seen # seen0
    /\ posts = 0

\* ------------------------------------------------------------------- C11
\* A fetch that failed after the server answered every GET with 503.
All503 ==
    /\ cycStatus = "fetch_failed"
    /\ \A k \in 1..Len(fhist) : fhist[k].kind = "http" /\ fhist[k].status = 503

NoRetryAfter == \A k \in 1..Len(fhist) : fhist[k].retry_after = None

NonDecreasing(q) == \A k \in 1..(Len(q) - 1) : q[k] <= q[k + 1]

FetchFailed ==
    /\ pc # "fetch"
    /\ Len(fhist) > 0
    /\ \/ fhist[Len(fhist)].kind = "neterr"
       \/ fhist[Len(fhist)].status >= 400

\* C12: a cycle whose fetch failed (status or transport error) extracts
\* nothing, leaves the Seen Store as it was, calls discord_send for nothing,
\* and run_once returns with the failure caught.
C12_FetchFailureAbortsCycle ==
    FetchFailed =>
        /\ items = <<>>
        /\ seen = seen0
        /\ cycNotify = 0
        /\ posts = 0
        /\ result = "none"
        /\ pc = "idle"
        /\ cycStatus = "fetch_failed"

\* A cycle after one that recorded a row ended on a 404 answer, and another on
\* a connection failure after the retries.
C12_Witness ==
    /\ FetchFailed
    /\ cycStatus = "fetch_failed"
    /\ seen # {}
    /\ seen = seen0
    /\ \/ fhist[Len(fhist)].status = 404
       \/ fhist[Len(fhist)].kind = "neterr" /\ Len(fhist) = 4

\* ------------------------------------------------------------------- C13
\* C13: no exception raised by the fetch, the Seen Store or discord_send
\* leaves run_once: a cycle that failed has returned, and from every state
\* in which run_once has returned the scheduler can start the next cycle.
C13_NoFailureEscapes ==
    /\ cycStatus # "escaped"
    /\ cycStatus \in {"fetch_failed", "store_failed", "failed"} => pc = "idle"
    /\ pc = "idle" /\ cycle < MaxCycles => ENABLED Trigger

\* A second cycle runs after run_once caught, in the first, an exception that
\* discord_send raised.
C13_Witness ==
    /\ cycle = 2
    /\ cycStatus = "running"
    /\ failedIds # {}
    /\ seen # {}

\* ------------------------------------------------------------------- C14
\* The runs whose SELECT found no row for id.
AbsentFor(id) == { r \in 1..MaxCycles : <<r, id>> \in absent }

\* C14: at most one instance of run_once is in progress; the interval firing
\* while one runs is counted as skipped and starts nothing, then or later (a
\* run only ever starts when no instance is running); and no two runs find
\* the same id absent from the Seen Store.
C14_SingleFlight ==
    [][ /\ Cardinality(Busy') <= 1
        /\ \A id \in Ids : Cardinality(AbsentFor(id)') <= 1
        /\ Busy # {} => cycle' = cycle /\ Busy' \subseteq Busy
        /\ dropped' # dropped => Busy # {} /\ inst' = inst /\ seen' = seen
      ]_vars

\* A second run started after a firing was skipped during the first, which
\* had found an id absent and recorded it; the second run found it present.
C14_Witness ==
    /\ dropped >= 1
    /\ cycle = 2
    /\ \E id \in Ids :
          /\ AbsentFor(id) = {1}
          /\ Known(seen, id)
          /\ \E s \in Busy :
                /\ inst[s].run = 2
                /\ Len(inst[s].todo) < MaxCards
                /\ inst[s].pc = "select"

\* ------------------------------------------------------------------- C15
\* The ids q, in that order, are ids of cards at increasing positions of p.
InDocumentOrder(q, p) ==
    \E f \in [1..Len(q) -> 1..Len(p)] :
        /\ \A k \in 1..Len(q) : POST_ID_RE(p[f[k]].href) = Some(q[k])
        /\ \A k \in 1..(Len(q) - 1) : f[k] < f[k + 1]

\* C15: the discord_send calls of a cycle are made in the order of the cards
\* on the fetched page, one call per position at most and one at a time: when
\* run_once is at the Seen Store check of an item, or about to call
\* discord_send for it, no earlier call is still in progress.
C15_DocumentOrder ==
    /\ InDocumentOrder(cycOrder, page)
    /\ Len(cycOrder) = cycNotify
    /\ pc = "loop" => result # "running"
    /\ pc = "notify" => result = "none"
    /\ pc = "post" => result = "running" /\ cycOrder[Len(cycOrder)] = items[idx].id

\* Two items of one page were notified in one cycle, the one of the second
\* card after the call for the first had returned.
C15_Witness ==
    /\ Len(cycOrder) = 2
    /\ Len(page) = 2
    /\ POST_ID_RE(page[1].href) = Some(cycOrder[1])
    /\ POST_ID_RE(page[2].href) = Some(cycOrder[2])
    /\ pc = "post"
    /\ idx = 2

\* ------------------------------------------------------------------- C16
\* C16: every step keeps each row of the Seen Store as it is (no row is
\* deleted, and none has its first_seen_ts, product_name or price changed),
\* and the store holds one row per id at most, whatever title, price or
\* status the id is observed with later.
C16_StoreOnlyGrows ==
    [][ /\ seen \subseteq seen'
        /\ \A id \in Ids : Cardinality(RowsOf(seen', id)) <= 1
      ]_vars

\* An id recorded with title "A" was observed again in a later cycle, at a
\* later clock value, with title "B", no price and another status, and its
\* row is as it was.
C16_Witness ==
    /\ cycle = 2
    /\ pc = "loop"
    /\ idx = 2
    /\ items[1].title = "B"
    /\ items[1].date = None
    /\ \E e \in seen :
          /\ e.post_id = items[1].id
          /\ e.product_name = "A"
          /\ e.price = Some(1000)
          /\ e.first_seen_ts = 0

\* ------------------------------------------------------------------- C17
\* The path of a relative link target: what precedes its query or fragment.
UrlPath(h) ==
    LET stops == { i \in 1..Len(h) : h[i] \in {"?", "#"} }
    IN  IF stops = {} THEN h ELSE SubSeq(h, 1, Min(stops) - 1)

\* The longest run of digits that s ends in.
RECURSIVE TrailingDigits(_)
TrailingDigits(s) ==
    IF s = <<>> THEN <<>>
    ELSE IF s[Len(s)] \notin Digits THEN <<>>
         ELSE TrailingDigits(SubSeq(s, 1, Len(s) - 1)) \o <<s[Len(s)]>>

\* s ends in "/" followed by a run of five or more digits.
EndsInSlashDigits(s) ==
    LET d == TrailingDigits(s)
    IN  /\ Len(d) >= 5
        /\ Len(s) > Len(d)
        /\ s[Len(s) - Len(d)] = "/"

\* The digit runs of the cards of p that end in "/" and five or more digits,
\* in document order: those of the paths of the hrefs, or of the hrefs as
\* they are.
RECURSIVE ExpectedIds(_, _)
ExpectedIds(p, ofPath) ==
    IF p = <<>> THEN <<>>
    ELSE LET h == IF ofPath THEN UrlPath(Head(p).href) ELSE Head(p).href
         IN  (IF EndsInSlashDigits(h) THEN <<TrailingDigits(h)>> ELSE <<>>)
                 \o ExpectedIds(Tail(p), ofPath)

ParsedIds == [k \in 1..Len(parsed[1]) |-> parsed[1][k].id]

\* C17 as stated: parse_list emits an item for a card exactly when the path
\* of the card's link target ends in "/" and five or more digits, with that
\* digit run as id.
C17_EmitsWhenPathEndsInId ==
    parsed # None => ParsedIds = ExpectedIds(listing, TRUE)

\* C17: parse_list emits an item for a card exactly when the card's href
\* itself (query and fragment included) ends in "/" followed by five or more
\* digits, with that digit run as id; every other card is skipped, and every
\* emitted id is a string of five or more digits.
C17_EmitsWhenHrefEndsInId ==
    parsed # None =>
        /\ ParsedIds = ExpectedIds(listing, FALSE)
        /\ \A k \in 1..Len(parsed[1]) :
              /\ Len(parsed[1][k].id) >= 5
              /\ \A j \in 1..Len(parsed[1][k].id) : parsed[1][k].id[j] \in Digits

\* Of a card whose href has a query after the id and a card whose href ends
\* in "/123456", parse_list emitted the second only.
C17_Witness ==
    /\ parsed # None
    /\ Len(listing) = 2
    /\ listing[1].href = HQuery
    /\ listing[2].href = H123456
    /\ ParsedIds = << <<"1", "2", "3", "4", "5", "6">> >>

\* ------------------------------------------------------------------- C18
\* The 429 body b gives no wait that parses as a number: it is not JSON, has
\* no retry_after, or has one that is not a number.
NoParsableWait(b) ==
    \/ b.json = "invalid"
    \/ b.retry_after = None
    \/ b.retry_after[1].t # "num"

\* C18: a pass that receives 429 with a missing or unparsable wait takes the
\* wait to be 1.0 s, sleeps 1.25 s and does not make the call fail.
C18_DefaultWaitWhenUnparsable ==
    [][ ( /\ PostStep
          /\ lastResp'[1].kind = "http"
          /\ lastResp'[1].status = 429
          /\ NoParsableWait(lastResp'[1].body) )
            => /\ slept' = Some(5)
               /\ result' # "raised"
      ]_vars

\* ------------------------------------------------------------------- C19
\* The ids of the items of the running cycle up to the one run_once is at.
ReachedIds == { items[i].id : i \in 1..Min({idx, Len(items)}) }

\* C19: when discord_send raises for an item the cycle ends there: run_once
\* has returned, the item stays in the Seen Store, and no item later on the
\* page was checked (none has a date), recorded or notified, so the ids that
\* only occur later are not in the store, where a later cycle finds them new.
C19_RaiseStopsCycle ==
    cycStatus = "failed" =>
        /\ pc = "idle"
        /\ result = "raised"
        /\ idx \in 1..Len(items)
        /\ items[idx].id \in SeenIds(seen)
        /\ items[idx].id \in failedIds
        /\ cycOrder[Len(cycOrder)] = items[idx].id
        /\ \A j \in (idx + 1)..Len(items) : items[j].date = None
        /\ SeenIds(seen) \subseteq SeenIds(seen0) \cup ReachedIds
        /\ \A k \in 1..Len(cycOrder) : cycOrder[k] \in ReachedIds

\* discord_send raised for the first of two new items: the first is in the
\* Seen Store, the second, which passes the filter, is not.
C19_Witness ==
    /\ cycStatus = "failed"
    /\ idx = 1
    /\ Len(items) = 2
    /\ items[1].id \in SeenIds(seen)
    /\ ~IsFiltered(items[2])
    /\ items[2].id \notin SeenIds(seen)

\* ------------------------------------------------------------------- C20
\* C20: while discord_send is being called for an item, the item has a date
\* and the Seen Store has the row of its id with that date as first_seen_ts;
\* and an item of the cycle has a date only if it passes the filter and its
\* id was in the store neither when the cycle started nor through an earlier
\* item of the page that passes the filter.
C20_DateIsFirstSeen ==
    /\ pc \in {"notify", "post"} =>
          /\ items[idx].date # None
          /\ \E e \in seen : /\ e.post_id = items[idx].id
                              /\ e.first_seen_ts = items[idx].date[1]
    /\ \A i \in 1..Len(items) :
          items[i].date # None =>
              /\ ~In(IN_PROGRESS, items[i].status)
              /\ items[i].id \notin SeenIds(seen0)
              /\ \A j \in 1..(i - 1) :
                    items[j].id = items[i].id => In(IN_PROGRESS, items[j].status)
              /\ i <= idx

\* discord_send is posting for an item first seen at clock value 1, after an
\* item of the same page that a previous cycle had recorded at 0 was found
\* seen and left without a date.
C20_Witness ==
    /\ pc = "post"
    /\ idx = 2
    /\ items[2].date = Some(1)
    /\ items[1].date = None
    /\ items[1].id \in SeenIds(seen0)
    /\ \E e \in seen : e.post_id = items[2].id /\ e.first_seen_ts = 1
    /\ \E e \in seen : e.post_id = items[1].id /\ e.first_seen_ts = 0

====
